---- MODULE Spec2Model ----
(***************************************************************************)
(* Reference tracking (src/models/lib/trackRefs.js): the registry that     *)
(* trackRefs / connect attach to an item class, and the delta engine       *)
(* onRefsUpdateItem / onRefsAddItem / onRefsDeleteItem that runs the       *)
(* registered actions against the referenced records inside the caller's   *)
(* transaction.                                                            *)
(***************************************************************************)
EXTENDS Integers, Sequences, FiniteSets, Bags, TLC

(* ------------------------------ bounds -------------------------------- *)
\* longest array a tracked property holds
MaxLen == 2
\* declaration calls (trackRefs / connect) per behaviour
MaxDecls == 2
\* lifecycle events per behaviour
MaxEvents == 2
\* operations of one run that the store lets fail
MaxFail == 1

(* ----------------------------- universe ------------------------------- *)
Models == {"A", "B"}
\* properties of A records (they reference B records) and of B records
SourceProps == {"bId", "bIds"}
TargetProps == {"aId", "aIds"}
Fields == SourceProps \cup TargetProps
SourceIds == {"a1"}
TargetIds == {"b1", "b2"}
DocKeys == ({"A"} \X SourceIds) \cup ({"B"} \X TargetIds)

Range(s) == {s[i] : i \in 1..Len(s)}

RECURSIVE SeqsUpTo(_, _)
SeqsUpTo(S, n) ==
  IF n = 0 THEN {<<>>}
  ELSE LET shorter == SeqsUpTo(S, n - 1)
       IN  shorter \cup {Append(s, x) : s \in {t \in shorter : Len(t) = n - 1}, x \in S}

(* ------------------------------ values -------------------------------- *)
\* A JavaScript property value: undefined, null, one id, or an array of ids.
Undef == [tag |-> "undef", ids |-> <<>>]
Null == [tag |-> "null", ids |-> <<>>]
IdVal(x) == [tag |-> "id", ids |-> <<x>>]
ArrVal(s) == [tag |-> "array", ids |-> s]

\* toArray: Array.isArray(e) ? e : e ? [e] : []
toArray(e) ==
  IF e.tag = "array" THEN e.ids
  ELSE IF e.tag = "id" THEN <<e.ids[1]>>
  ELSE <<>>

\* notIn(arr) as the predicate handed to Array.prototype.filter
notIn(arr, x) == x \notin Range(arr)

\* array.filter(notIn(other))
FilterNotIn(arr, other) == SelectSeq(arr, LAMBDA x : notIn(other, x))

(* ----------------------------- documents ------------------------------ *)
\* A record of the document store as the transaction sees it.
EmptyData == [f \in Fields |-> Undef]
NoDoc == [exists |-> FALSE, data |-> EmptyData]

\* firebase/firestore arrayUnion(id) applied to the stored field value
arrayUnion(old, id) ==
  IF old.tag = "array"
  THEN IF id \in Range(old.ids) THEN old ELSE ArrVal(Append(old.ids, id))
  ELSE ArrVal(<<id>>)

\* firebase/firestore arrayRemove(id) applied to the stored field value
arrayRemove(old, id) ==
  IF old.tag = "array"
  THEN ArrVal(SelectSeq(old.ids, LAMBDA x : x # id))
  ELSE ArrVal(<<>>)

\* refItem.set({[prop]: v}, txn): a partial (merging) write, creating the record
docSet(doc, prop, v) == [exists |-> TRUE, data |-> [doc.data EXCEPT ![prop] = v]]

\* refItem.delete(txn)
docDelete(doc) == NoDoc

(* ------------------------------ actions ------------------------------- *)
NoProp == "undefined"
AppendIDAction(prop) == [kind |-> "AppendID", prop |-> prop]
SetIDAction(prop) == [kind |-> "SetID", prop |-> prop]
RemoveIDAction(prop) == [kind |-> "RemoveID", prop |-> prop]
UnsetIDAction(prop) == [kind |-> "UnsetID", prop |-> prop]
DeleteItemAction == [kind |-> "DeleteItem", prop |-> NoProp]

\* action.run(txn, item, refItem): the write it makes to the target record
RunAction(action, itemId, doc) ==
  CASE action.kind = "AppendID" ->
         docSet(doc, action.prop, arrayUnion(doc.data[action.prop], itemId))
    [] action.kind = "SetID" -> docSet(doc, action.prop, IdVal(itemId))
    [] action.kind = "RemoveID" ->
         docSet(doc, action.prop, arrayRemove(doc.data[action.prop], itemId))
    [] action.kind = "UnsetID" -> docSet(doc, action.prop, Null)
    [] action.kind = "DeleteItem" -> docDelete(doc)

(* ------------------------------ registry ------------------------------ *)
EmptyMap == [e \in {} |-> <<>>]
\* ItemClass.prototype[refProps] before any trackRefs call
NoRefProps ==
  [has |-> FALSE, props |-> <<>>, AddActions |-> EmptyMap, RemoveActions |-> EmptyMap]

Merge(f, g) == [k \in DOMAIN f \cup DOMAIN g |-> IF k \in DOMAIN g THEN g[k] ELSE f[k]]

\* prev.AddActions[e].concat(...) on a property prev never tracked: TypeError
trackRefsThrows(prev, props) ==
  prev.has /\ \E i \in 1..Len(props) : props[i] \notin DOMAIN prev.AddActions

\* the remove-action list trackRefs registers for one property
newRemoveActions(prev, e, addActions, removeActions) ==
  IF prev.has THEN prev.RemoveActions[e] \o removeActions ELSE addActions

\* the add-action list trackRefs registers for one property
newAddActions(prev, e, addActions) ==
  IF prev.has THEN prev.AddActions[e] \o addActions ELSE addActions

\* the tracked-property list trackRefs registers
newProps(prev, props) == IF prev.has THEN prev.props \o props ELSE props

\* newRefProps of trackRefs(ItemClass, props, addActions, removeActions)
trackRefs(prev, props, addActions, removeActions) ==
  [has |-> TRUE,
   props |-> newProps(prev, props),
   AddActions |->
     Merge(prev.AddActions,
           [e \in Range(props) |-> newAddActions(prev, e, addActions)]),
   RemoveActions |->
     Merge(prev.RemoveActions,
           [e \in Range(props) |-> newRemoveActions(prev, e, addActions, removeActions)])]

(* --------------------------- program state ---------------------------- *)
VARIABLES
  refProps,          \* per item class: ItemClass.prototype[refProps]
  Meta,              \* per model property: its type and reference model
  triggersUpdateTxn, \* per item class: properties marked by markTriggersUpdateTxn
  calls,             \* history of the trackRefs calls made (arguments, outcome)
  declError,         \* what the last declaration call threw
  db,                \* the document store as the open transaction sees it
  committed,         \* the document store and local flags at the last commit
  localOnly,         \* records of the in-memory item store created but unsaved
  ev,                \* the lifecycle event being handled
  tasks,             \* one per entry of props: the async callback of props.map
  ops,               \* store operations issued and not yet settled
  outcome,           \* the promise onRefsUpdateItem returned
  ran,               \* bag of the action runs that took effect in this run
  nFail,             \* operations that failed in this run
  nEvents,           \* lifecycle events begun
  firstRun,          \* the store as the first execution of a retried event left it
  budget,            \* declaration calls and lifecycle events this behaviour may make
  searchIndexProps,  \* ItemClass.prototype[searchIndexProps] of the indexed class
  searchEntries,     \* the Search Index Entries, by normalized identity
  itemText,          \* the persisted indexed properties of the items
  searchEv           \* the last search lifecycle event handled

declVars == <<refProps, Meta, triggersUpdateTxn, calls, declError>>
runVars == <<db, committed, localOnly, ev, tasks, ops, outcome, ran, nFail, nEvents, firstRun>>
searchVars == <<searchIndexProps, searchEntries, itemText, searchEv>>
vars == <<refProps, Meta, triggersUpdateTxn, calls, declError, db, committed,
          localOnly, ev, tasks, ops, outcome, ran, nFail, nEvents, firstRun, budget,
          searchIndexProps, searchEntries, itemText, searchEv>>

MetaKeys == ({"A"} \X SourceProps) \cup ({"B"} \X TargetProps)
NoModel == "undefined"
\* the schema of the two models before any association is declared
Meta0 ==
  [mp \in MetaKeys |->
     [type |-> IF mp[2] \in {"bIds", "aIds"} THEN "array" ELSE "scalar",
      refModel |-> NoModel, arrayRefModel |-> NoModel]]

NoEvent == [kind |-> "none", item |-> "a1", newState |-> [p \in SourceProps |-> Undef],
            isUpdate |-> FALSE, attempt |-> 0]
NoFirstRun == [taken |-> FALSE, db |-> [k \in DocKeys |-> NoDoc]]

(* ---------------------------- declarations ---------------------------- *)
\* the state a declaration call works on
DeclState ==
  [refProps |-> refProps, Meta |-> Meta, triggers |-> triggersUpdateTxn,
   calls |-> calls, threw |-> "none"]

\* trackRefs(ItemClass, props, addActions, removeActions) on a declaration state
trackRefsOn(st, cls, props, addActions, removeActions) ==
  LET prev == st.refProps[cls]
      call == [cls |-> cls, props |-> props, addActions |-> addActions,
               removeActions |-> removeActions,
               threw |-> trackRefsThrows(prev, props)]
  IN  IF trackRefsThrows(prev, props)
      THEN [st EXCEPT !.calls = Append(@, call), !.threw = "TypeError"]
      ELSE [st EXCEPT
              !.refProps[cls] = trackRefs(prev, props, addActions, removeActions),
              !.triggers[cls] = @ \cup Range(props),
              !.calls = Append(@, call)]

\* connectOnce raising the configuration error only after it registered the actions
connectOnceLate(st, model1, prop1, model2, prop2, deleteOnRemove) ==
  LET isTwoWay == prop2 # NoProp
      isArray1 == st.Meta[<<model1, prop1>>].type = "array"
      isArray2 == isTwoWay /\ st.Meta[<<model2, prop2>>].type = "array"
      addActions == IF isArray2 THEN <<AppendIDAction(prop2)>>
                    ELSE IF isTwoWay THEN <<SetIDAction(prop2)>>
                    ELSE <<>>
      removeActions == IF deleteOnRemove THEN <<DeleteItemAction>>
                       ELSE IF isTwoWay THEN <<UnsetIDAction(prop2)>>
                       ELSE <<>>
      tracked == trackRefsOn(st, model1, <<prop1>>, addActions, removeActions)
  IN  IF tracked.threw # "none" THEN tracked
      ELSE IF isArray2 /\ deleteOnRemove
      THEN [tracked EXCEPT !.threw = "InvalidParameters"]
      ELSE IF isArray1
      THEN [tracked EXCEPT !.Meta[<<model1, prop1>>].arrayRefModel = model2]
      ELSE [tracked EXCEPT !.Meta[<<model1, prop1>>].refModel = model2]

\* one activation of connect, without the recursive call
connectOnce(st, model1, prop1, model2, prop2, deleteOnRemove) ==
  LET isTwoWay == prop2 # NoProp
      isArray1 == st.Meta[<<model1, prop1>>].type = "array"
      isArray2 == isTwoWay /\ st.Meta[<<model2, prop2>>].type = "array"
      addActions == IF isArray2 THEN <<AppendIDAction(prop2)>>
                    ELSE IF isTwoWay THEN <<SetIDAction(prop2)>>
                    ELSE <<>>
      removeActions == IF deleteOnRemove THEN <<DeleteItemAction>>
                       ELSE IF isTwoWay THEN <<UnsetIDAction(prop2)>>
                       ELSE <<>>
      tracked == trackRefsOn(st, model1, <<prop1>>, addActions, removeActions)
  IN  IF isArray2 /\ deleteOnRemove
      THEN [st EXCEPT !.threw = "InvalidParameters"]
      ELSE IF tracked.threw # "none" THEN tracked
      ELSE IF isArray1
      THEN [tracked EXCEPT !.Meta[<<model1, prop1>>].arrayRefModel = model2]
      ELSE [tracked EXCEPT !.Meta[<<model1, prop1>>].refModel = model2]

\* connect(model1, prop1, model2, prop2, deleteOnRemove), noRecurse unset
connect(st, model1, prop1, model2, prop2, deleteOnRemove) ==
  LET first == connectOnce(st, model1, prop1, model2, prop2, deleteOnRemove)
  IN  IF first.threw # "none" \/ prop2 = NoProp
      THEN first
      ELSE connectOnce(first, model2, prop2, model1, prop1, FALSE)

\* a Model itself, as distinct from its item class model._Item
ModelObject(m) == IF m = "A" THEN "A.Model" ELSE "B.Model"
\* the objects a registry can be attached to
Classes == Models \cup {ModelObject(m) : m \in Models}

\* belongsToMany(model1, prop1, model2, prop2, deleteOnRemove): it hands the
\* Model itself to trackRefs. Either the Model lacks what trackRefs uses of an
\* item class (prototype, markTriggersUpdateTxn) and the call throws a TypeError
\* before anything is assigned, or the registry lands on the Model.
belongsToMany(st, model1, prop1, model2, prop2, deleteOnRemove) ==
  LET addActions == <<SetIDAction(prop2)>>
      removeActions == IF deleteOnRemove THEN <<DeleteItemAction>>
                       ELSE <<RemoveIDAction(prop2)>>
      call == [cls |-> ModelObject(model1), props |-> <<prop1>>,
               addActions |-> addActions, removeActions |-> removeActions,
               threw |-> TRUE]
      tracked == trackRefsOn(st, ModelObject(model1), <<prop1>>, addActions, removeActions)
  IN  {[st EXCEPT !.calls = Append(@, call), !.threw = "TypeError"],
       IF tracked.threw # "none" THEN tracked
       ELSE [tracked EXCEPT !.Meta[<<model2, prop2>>].refModel = model1]}

Idle == ev.kind = "none"
CanDeclare(n) == Idle /\ nEvents = 0 /\ Len(calls) + n <= budget.decls

Declared(st) ==
  /\ refProps' = st.refProps
  /\ Meta' = st.Meta
  /\ triggersUpdateTxn' = st.triggers
  /\ calls' = st.calls
  /\ declError' = st.threw
  /\ UNCHANGED runVars
  /\ UNCHANGED <<budget, searchVars>>

TrackRefsCall(cls, props, addActions, removeActions) ==
  /\ CanDeclare(1)
  /\ Declared(trackRefsOn(DeclState, cls, props, addActions, removeActions))

ConnectCall(model1, prop1, model2, prop2, deleteOnRemove) ==
  /\ CanDeclare(IF prop2 = NoProp THEN 1 ELSE 2)
  /\ Declared(connect(DeclState, model1, prop1, model2, prop2, deleteOnRemove))

BelongsToManyCall(model1, prop1, model2, prop2, deleteOnRemove) ==
  /\ CanDeclare(1)
  /\ \E st \in belongsToMany(DeclState, model1, prop1, model2, prop2, deleteOnRemove) :
       Declared(st)

(* ------------------------- the delta engine --------------------------- *)
\* item.model() of the items whose lifecycle events are handled
ModelOf(item) == "A"
ItemKey(item) == <<ModelOf(item), item>>

\* meta.type === "array" ? meta.arrayType.refModel : meta.refModel
refModelOf(model, e) ==
  LET meta == Meta[<<model, e>>]
  IN  IF meta.type = "array" THEN meta.arrayRefModel ELSE meta.refModel

\* refModel.item(id) / refModel.ref(id); a TypeError when refModel is undefined
Unresolved(item, e) == refModelOf(ModelOf(item), e) = NoModel
RefKey(item, e, id) == <<refModelOf(ModelOf(item), e), id>>

\* item.didUpdate(e): e is part of the write being made
didUpdate(newState, e) == newState[e].tag # "undef"

\* None of @/utils/none: the state with no property set
NoneState == [p \in SourceProps |-> Undef]

\* addedIds without the filter: every id of the new value counts as added
addedIdsUnfiltered(newValue, oldValue) == toArray(newValue)

\* added = newValue.filter(notIn(oldValue))
addedIds(newValue, oldValue) == FilterNotIn(toArray(newValue), toArray(oldValue))
\* removed = oldValue.filter(notIn(newValue))
removedIds(newValue, oldValue) == FilterNotIn(toArray(oldValue), toArray(newValue))

Op(i, ph, j, k) == [i |-> i, ph |-> ph, j |-> j, k |-> k]
OpsOf(S, i) == {o \in S : o.i = i}

\* Promise.all(AddActions[e].map(...)) of one added id: one run per action
addRuns(reg, t, i, j) == {Op(i, "add", j, k) : k \in 1..Len(reg.AddActions[t.e])}

\* Promise.all(RemoveActions[e].map(...)) of every removed id
removeRuns(reg, t, i) ==
  {Op(i, "remove", j, k) :
     j \in 1..Len(t.removed), k \in 1..Len(reg.RemoveActions[t.e])}

\* Promise.all(added.map(...)): save the local-only targets, run the others' actions
enterAdded(rs, reg, item, lo, i) ==
  LET t == rs.tasks[i]
      saves == {Op(i, "save", j, 0) :
                  j \in {x \in 1..Len(t.added) : RefKey(item, t.e, t.added[x]) \in lo}}
      runs == UNION {addRuns(reg, t, i, j) :
                  j \in {x \in 1..Len(t.added) : RefKey(item, t.e, t.added[x]) \notin lo}}
  IN  IF Len(t.added) > 0 /\ Unresolved(item, t.e)
      THEN [rs EXCEPT !.tasks[i].phase = "failed"]
      ELSE IF saves \cup runs = {}
      THEN [rs EXCEPT !.tasks[i].phase = "done"]
      ELSE [rs EXCEPT !.tasks[i].phase = "added", !.ops = @ \cup saves \cup runs]

\* Promise.all(removed.map(...)), and what follows it when there is nothing to await
enterRemoved(rs, reg, item, lo, i) ==
  LET t == rs.tasks[i]
  IN  IF Len(t.removed) > 0 /\ Unresolved(item, t.e)
      THEN [rs EXCEPT !.tasks[i].phase = "failed"]
      ELSE IF removeRuns(reg, t, i) = {}
      THEN enterAdded(rs, reg, item, lo, i)
      ELSE [rs EXCEPT !.tasks[i].phase = "removed", !.ops = @ \cup removeRuns(reg, t, i)]

\* promiseAll waiting for every callback to settle and ignoring rejections
promiseAllSettled(ts) ==
  IF \A i \in 1..Len(ts) : ts[i].phase \in {"skipped", "done", "failed"}
  THEN "resolved"
  ELSE "pending"

\* the outer await Promise.all(props.map(...))
promiseAll(ts) ==
  IF \E i \in 1..Len(ts) : ts[i].phase = "failed" THEN "rejected"
  ELSE IF \A i \in 1..Len(ts) : ts[i].phase \in {"skipped", "done"} THEN "resolved"
  ELSE "pending"

\* the synchronous start of onRefsUpdateItem(item, txn, newState, isUpdate)
StartRun(kind, item, newState, isUpdate, attempt) ==
  LET reg == refProps[ModelOf(item)]
      ts == [i \in 1..Len(reg.props) |->
               [e |-> reg.props[i],
                phase |-> IF isUpdate /\ ~didUpdate(newState, reg.props[i])
                          THEN "skipped" ELSE "read",
                removed |-> <<>>, added |-> <<>>]]
  IN  /\ ev' = [kind |-> kind, item |-> item, newState |-> newState,
                isUpdate |-> isUpdate, attempt |-> attempt]
      /\ tasks' = IF reg.has THEN ts ELSE <<>>
      /\ ops' = IF reg.has
                THEN {Op(i, "read", 0, 0) : i \in {x \in 1..Len(ts) : ts[x].phase = "read"}}
                ELSE {}
      /\ outcome' = IF reg.has THEN promiseAll(ts) ELSE "resolved"
      /\ ran' = EmptyBag
      /\ nFail' = 0

\* the state of the run a settling operation leaves behind
finishAdded(rs, i) ==
  IF rs.tasks[i].phase = "added" /\ OpsOf(rs.ops, i) = {}
  THEN [rs EXCEPT !.tasks[i].phase = "done"]
  ELSE rs

\* created.save(txn): the record as the local instance holds it
savedDoc == [exists |-> TRUE, data |-> EmptyData]

RanEntry(branch, e, k, id) == [branch |-> branch, e |-> e, k |-> k, id |-> id]

\* the continuation of the run after operation op settled successfully
afterOp(op) ==
  LET i == op.i
      t == tasks[i]
      reg == refProps[ModelOf(ev.item)]
      rest == ops \ {op}
      old == db[ItemKey(ev.item)].data[t.e]
      rs == [tasks |-> tasks, ops |-> rest]
  IN  CASE op.ph = "read" ->
             enterRemoved(
               [rs EXCEPT !.tasks[i].removed = removedIds(ev.newState[t.e], old),
                          !.tasks[i].added = addedIds(ev.newState[t.e], old)],
               reg, ev.item, localOnly, i)
        [] op.ph = "remove" ->
             IF t.phase = "removed" /\ OpsOf(rest, i) = {}
             THEN enterAdded(rs, reg, ev.item, localOnly, i)
             ELSE rs
        [] op.ph = "save" ->
             finishAdded([rs EXCEPT !.ops = @ \cup addRuns(reg, t, i, op.j)], i)
        [] op.ph = "add" -> finishAdded(rs, i)

\* the write operation op makes when it takes effect
effectOf(op) ==
  LET t == tasks[op.i]
      reg == refProps[ModelOf(ev.item)]
  IN  CASE op.ph = "read" -> db
        [] op.ph = "remove" ->
             [db EXCEPT ![RefKey(ev.item, t.e, t.removed[op.j])] =
                RunAction(reg.RemoveActions[t.e][op.k], ev.item, @)]
        [] op.ph = "save" ->
             [db EXCEPT ![RefKey(ev.item, t.e, t.added[op.j])] = savedDoc]
        [] op.ph = "add" ->
             [db EXCEPT ![RefKey(ev.item, t.e, t.added[op.j])] =
                RunAction(reg.AddActions[t.e][op.k], ev.item, @)]

\* what the run's history records for op
ranOf(op) ==
  LET t == tasks[op.i]
  IN  CASE op.ph = "read" -> EmptyBag
        [] op.ph = "remove" ->
             SetToBag({RanEntry("remove", t.e, op.k, t.removed[op.j])})
        [] op.ph = "save" -> SetToBag({RanEntry("save", t.e, 0, t.added[op.j])})
        [] op.ph = "add" -> SetToBag({RanEntry("add", t.e, op.k, t.added[op.j])})

(* --------------------------- lifecycle events ------------------------- *)
CanBegin == Idle /\ nEvents < budget.events

Begin(kind, item, newState, isUpdate) ==
  /\ CanBegin
  /\ StartRun(kind, item, newState, isUpdate, 1)
  /\ nEvents' = nEvents + 1
  /\ firstRun' = NoFirstRun
  /\ UNCHANGED <<db, committed, localOnly>>
  /\ UNCHANGED <<declVars, budget, searchVars>>

\* export async function onRefsUpdateItem(item, txn, newState, isUpdate = true)
onRefsUpdateItem(item, newState) == Begin("update", item, newState, TRUE)

\* the arguments onRefsAddItem hands to onRefsUpdateItem
onRefsAddItemArgs(newState) == [newState |-> newState, isUpdate |-> FALSE]
onRefsAddItem(item, newState) ==
  LET a == onRefsAddItemArgs(newState)
  IN  Begin("add", item, a.newState, a.isUpdate)

\* onRefsDeleteItemArgs leaving isUpdate at its default
onRefsDeleteItemArgsDefault == [newState |-> NoneState, isUpdate |-> TRUE]

\* the arguments onRefsDeleteItem hands to onRefsUpdateItem
onRefsDeleteItemArgs == [newState |-> NoneState, isUpdate |-> FALSE]
onRefsDeleteItem(item) ==
  Begin("delete", item, onRefsDeleteItemArgs.newState, onRefsDeleteItemArgs.isUpdate)

\* a store operation of the run settles successfully
OpDone(op) ==
  /\ op \in ops
  /\ LET rs == afterOp(op)
     IN  /\ tasks' = rs.tasks
         /\ ops' = rs.ops
         /\ outcome' = promiseAll(rs.tasks)
  /\ db' = effectOf(op)
  /\ ran' = ran (+) ranOf(op)
  /\ localOnly' = IF op.ph = "save"
                  THEN localOnly \ {RefKey(ev.item, tasks[op.i].e, tasks[op.i].added[op.j])}
                  ELSE localOnly
  /\ UNCHANGED <<committed, ev, nFail, nEvents, firstRun>>
  /\ UNCHANGED <<declVars, budget, searchVars>>

\* a store operation of the run fails: its promise rejects
OpFail(op) ==
  /\ op \in ops
  /\ nFail < MaxFail
  /\ tasks' = [tasks EXCEPT ![op.i].phase = "failed"]
  /\ ops' = ops \ {op}
  /\ outcome' = promiseAll(tasks')
  /\ nFail' = nFail + 1
  /\ UNCHANGED <<db, committed, localOnly, ev, ran, nEvents, firstRun>>
  /\ UNCHANGED <<declVars, budget, searchVars>>

(* ------------------------------ the host ------------------------------ *)
\* the item's own record once the host's write of the event is applied
commitDoc(kind, doc, newState) ==
  CASE kind = "delete" -> NoDoc
    [] kind = "add" ->
         [exists |-> TRUE,
          data |-> [f \in Fields |->
                      IF f \in SourceProps THEN newState[f] ELSE Undef]]
    [] kind = "update" ->
         [exists |-> TRUE,
          data |-> [f \in Fields |->
                      IF f \in SourceProps /\ newState[f].tag # "undef"
                      THEN newState[f] ELSE doc.data[f]]]

EndRun ==
  /\ ev' = NoEvent
  /\ tasks' = <<>>
  /\ ops' = {}
  /\ outcome' = "idle"
  /\ ran' = EmptyBag
  /\ nFail' = 0
  /\ firstRun' = NoFirstRun

\* the handler resolved: the host writes the item and commits the transaction
Commit ==
  /\ outcome = "resolved" /\ ops = {} /\ ~Idle
  /\ db' = [db EXCEPT ![ItemKey(ev.item)] = commitDoc(ev.kind, @, ev.newState)]
  /\ committed' = [db |-> db', localOnly |-> localOnly]
  /\ EndRun
  /\ UNCHANGED <<localOnly, nEvents>>
  /\ UNCHANGED <<declVars, budget, searchVars>>

\* the handler rejected: the transaction is rolled back
Abort ==
  /\ outcome = "rejected" /\ ops = {} /\ ~Idle
  /\ db' = committed.db
  /\ localOnly' = committed.localOnly
  /\ EndRun
  /\ UNCHANGED <<committed, nEvents>>
  /\ UNCHANGED <<declVars, budget, searchVars>>

\* the transaction is retried once: the handler runs again for the same event
Retry ==
  /\ outcome = "resolved" /\ ops = {} /\ ~Idle
  /\ ~firstRun.taken
  /\ StartRun(ev.kind, ev.item, ev.newState, ev.isUpdate, ev.attempt + 1)
  /\ firstRun' = [taken |-> TRUE, db |-> db]
  /\ UNCHANGED <<db, committed, localOnly, nEvents>>
  /\ UNCHANGED <<declVars, budget, searchVars>>

(* --------------------------- search index ----------------------------- *)
TextProps == {"title", "body"}
\* the texts an indexed property holds, as the words of the string
Texts == {<<"Foo">>, <<"foo", "bar">>}

\* a value of an indexed property: undefined, null, or a string
TUndef == [tag |-> "undef", words |-> <<>>]
TNull == [tag |-> "null", words |-> <<>>]
TextVal(ws) == [tag |-> "text", words |-> ws]
TextValues == {TUndef, TNull} \cup {TextVal(ws) : ws \in Texts}
TextStates == [TextProps -> TextValues]
NoText == [p \in TextProps |-> TUndef]

\* item.uniqueName(): the path of the record
uniqueName(item) == <<"A", "/", item>>
\* _id: item.uniqueName().replace(/\//g, "^")
_id(item) ==
  [i \in 1..Len(uniqueName(item)) |->
     IF uniqueName(item)[i] = "/" THEN "^" ELSE uniqueName(item)[i]]
IndexKeys == {_id(item) : item \in SourceIds}

\* hasProp(x, e): x carries the property e
hasProp(x, e) == x[e].tag # "undef"

\* String(state[e] ?? "")
StringOf(v) == IF v.tag = "text" THEN v.words ELSE <<>>

RECURSIVE joinProps(_, _)
\* props.map((e) => String(state[e] ?? "")).join(" ")
joinProps(props, state) ==
  IF props = <<>> THEN <<>>
  ELSE StringOf(state[Head(props)]) \o joinProps(Tail(props), state)

\* the token the tokenizer makes of one word (it folds case)
Token(w) == IF w = "Foo" THEN "foo" ELSE w
\* parseQuery(text).flat(): the tokens of the words of text, in order
parseQuery(text) == [i \in 1..Len(text) |-> Token(text[i])]

RECURSIVE uniq(_)
\* array.filter(uniq): the first occurrence of every element
uniq(arr) ==
  IF arr = <<>> THEN <<>>
  ELSE LET front == uniq(SubSeq(arr, 1, Len(arr) - 1))
           last == arr[Len(arr)]
       IN  IF last \in Range(front) THEN front ELSE Append(front, last)

NoEntry == [exists |-> FALSE, tokens |-> <<>>]

\* createIndexEntry(props, item, state, prev)
createIndexEntry(props, state, prev) ==
  [exists |-> TRUE,
   tokens |-> uniq(parseQuery(joinProps(props, state))
                   \o (IF prev.exists THEN prev.tokens ELSE <<>>))]

\* the indexer of the last declaration alone, without the chain behind it
indexerLast(groups, state) ==
  IF groups = <<>> THEN NoEntry
  ELSE createIndexEntry(groups[Len(groups)], state, NoEntry)

RECURSIVE indexer(_, _)
\* the indexer closure of the last indexForSearch call: each call captures its
\* props and the registry before it (prev), whose indexer it calls first
indexer(groups, state) ==
  IF groups = <<>> THEN NoEntry
  ELSE createIndexEntry(groups[Len(groups)], state,
                        indexer(SubSeq(groups, 1, Len(groups) - 1), state))

\* ItemClass.prototype[searchIndexProps] before any indexForSearch call
NoSearchIndexProps == [has |-> FALSE, props |-> <<>>, groups |-> <<>>]

\* indexForSearch(ItemClass, props): the registry it assigns
indexForSearch(prev, props) ==
  [has |-> TRUE,
   props |-> IF prev.has THEN prev.props \o props ELSE props,
   groups |-> Append(prev.groups, props)]

\* x of updateInTxn taking nothing from the persisted state
mergedStateCandidateOnly(reg, newState, prevState) == newState

\* x of updateInTxn: the candidate state, with every indexed property it lacks
\* taken from item.read(txn)
mergedState(reg, newState, prevState) ==
  [e \in TextProps |->
     IF e \in Range(reg.props) /\ ~hasProp(newState, e) THEN prevState[e]
     ELSE newState[e]]

\* updateInTxn(txn, item, newState): the entries it leaves
updateInTxn(reg, entries, item, newState, prevState) ==
  IF reg.has /\ \E i \in 1..Len(reg.props) : newState[reg.props[i]].tag # "undef"
  THEN [entries EXCEPT ![_id(item)] =
          indexer(reg.groups, mergedState(reg, newState, prevState))]
  ELSE entries

\* deleteInTxn(txn, item): the entries it leaves
deleteInTxn(reg, entries, item) ==
  IF reg.has THEN [entries EXCEPT ![_id(item)] = NoEntry] ELSE entries

NoSearchEv == [kind |-> "none", item |-> "a1", newState |-> NoText, prevState |-> NoText]
NoItemText == [exists |-> FALSE, data |-> NoText]

InitSearch ==
  /\ searchIndexProps = NoSearchIndexProps
  /\ searchEntries = [k \in IndexKeys |-> NoEntry]
  /\ itemText = [i \in SourceIds |-> NoItemText]
  /\ searchEv = NoSearchEv

refVars == <<refProps, Meta, triggersUpdateTxn, calls, declError, db, committed,
             localOnly, ev, tasks, ops, outcome, ran, nFail, nEvents, firstRun, budget>>

\* an indexForSearch call at model-definition time
IndexForSearchCall(props) ==
  /\ searchEv.kind = "none"
  /\ Len(searchIndexProps.groups) < MaxDecls
  /\ searchIndexProps' = indexForSearch(searchIndexProps, props)
  /\ UNCHANGED <<searchEntries, itemText, searchEv>>
  /\ UNCHANGED refVars

\* the handler runs, then the host writes the item's own record
SearchWrite(kind, item, newState) ==
  /\ searchEntries' = updateInTxn(searchIndexProps, searchEntries, item, newState,
                                  itemText[item].data)
  /\ itemText' = [itemText EXCEPT ![item] =
                    [exists |-> TRUE,
                     data |-> [e \in TextProps |->
                                 IF hasProp(newState, e) THEN newState[e]
                                 ELSE itemText[item].data[e]]]]
  /\ searchEv' = [kind |-> kind, item |-> item, newState |-> newState,
                  prevState |-> itemText[item].data]
  /\ UNCHANGED searchIndexProps
  /\ UNCHANGED refVars

\* export async function onSearchUpdateItem(item, txn, newState)
onSearchUpdateItem(item, newState) ==
  /\ itemText[item].exists
  /\ SearchWrite("update", item, newState)

\* export async function onSearchAddItem(item, txn, newState)
onSearchAddItem(item, newState) ==
  /\ ~itemText[item].exists
  /\ SearchWrite("add", item, newState)

\* export async function onSearchDeleteItem(item, txn)
onSearchDeleteItem(item) ==
  /\ itemText[item].exists
  /\ searchEntries' = deleteInTxn(searchIndexProps, searchEntries, item)
  /\ itemText' = [itemText EXCEPT ![item] = NoItemText]
  /\ searchEv' = [kind |-> "delete", item |-> item, newState |-> NoText,
                  prevState |-> itemText[item].data]
  /\ UNCHANGED searchIndexProps
  /\ UNCHANGED refVars

(* ------------------------------ inputs -------------------------------- *)
ArrayValues == {ArrVal(s) : s \in SeqsUpTo(TargetIds, MaxLen)}
ScalarValues == {Null} \cup {IdVal(x) : x \in TargetIds}
\* states of an A record: each property absent or holding a value of its type
ItemStates ==
  {ns \in [SourceProps -> {Undef} \cup ScalarValues \cup ArrayValues] :
     /\ ns["bId"] \in {Undef} \cup ScalarValues
     /\ ns["bIds"] \in {Undef} \cup ArrayValues}
\* only the tracked properties of a state are read by the engine
Relevant(reg, ns) ==
  \A p \in SourceProps : p \notin Range(reg.props) => ns[p] = Undef

PropLists == {<<"bId">>, <<"bIds">>, <<"bId", "bIds">>}
ActionLists ==
  {<<>>, <<SetIDAction("aId")>>, <<UnsetIDAction("aId")>>,
   <<AppendIDAction("aIds")>>, <<RemoveIDAction("aIds")>>, <<DeleteItemAction>>,
   <<SetIDAction("aId"), UnsetIDAction("aId")>>}
LocalCandidates == {<<"B", "b1">>}
\* the schema with the reference models declared in it
MetaDeclared ==
  [Meta0 EXCEPT ![<<"A", "bId">>].refModel = "B",
                ![<<"A", "bIds">>].arrayRefModel = "B"]

\* the declaration state of a program that has declared nothing yet
Fresh(meta) ==
  [refProps |-> [c \in Classes |-> NoRefProps], Meta |-> meta,
   triggers |-> [c \in Classes |-> {}], calls |-> <<>>, threw |-> "none"]

\* model definitions: the declarations a program makes before it handles events
Definitions ==
  {Fresh(MetaDeclared),
   connect(Fresh(Meta0), "A", "bId", "B", "aIds", FALSE),
   connect(Fresh(Meta0), "A", "bId", "B", "aId", TRUE),
   connect(Fresh(Meta0), "A", "bIds", "B", "aId", FALSE),
   connect(Fresh(Meta0), "A", "bIds", "B", "aIds", FALSE),
   trackRefsOn(Fresh(Meta0), "A", <<"bId">>, <<SetIDAction("aId")>>, <<>>),
   trackRefsOn(Fresh(MetaDeclared), "A", <<"bId">>,
               <<SetIDAction("aId"), UnsetIDAction("aId")>>, <<>>),
   trackRefsOn(trackRefsOn(Fresh(MetaDeclared), "A", <<"bId">>, <<>>, <<>>),
               "A", <<"bId">>, <<SetIDAction("aId")>>, <<UnsetIDAction("aId")>>),
   trackRefsOn(Fresh(MetaDeclared), "A", <<"bIds">>, <<RemoveIDAction("aIds")>>, <<>>),
   trackRefsOn(Fresh(MetaDeclared), "A", <<"bIds">>, <<UnsetIDAction("aId")>>, <<>>),
   trackRefsOn(Fresh(MetaDeclared), "A", <<"bIds">>, <<DeleteItemAction>>, <<>>)}

(* --------------------------- specification ---------------------------- *)
InitRun ==
  /\ ev = NoEvent
  /\ tasks = <<>>
  /\ ops = {}
  /\ outcome = "idle"
  /\ ran = EmptyBag
  /\ nFail = 0
  /\ nEvents = 0
  /\ firstRun = NoFirstRun

InitDecl(st) ==
  /\ refProps = st.refProps
  /\ Meta = st.Meta
  /\ triggersUpdateTxn = st.triggers
  /\ calls = st.calls
  /\ declError = st.threw

\* the records of B exist, but for those that are created and unsaved
InitStore(itemDocs) ==
  /\ localOnly \in SUBSET LocalCandidates
  /\ db = [k \in DocKeys |->
             IF k[1] = "A" THEN itemDocs[k[2]]
             ELSE IF k \notin localOnly THEN savedDoc ELSE NoDoc]
  /\ committed = [db |-> db, localOnly |-> localOnly]

ItemDoc(ns) == [exists |-> TRUE, data |-> [f \in Fields |->
                  IF f \in SourceProps THEN ns[f] ELSE Undef]]

\* Spec: the models are defined, the A records hold any persisted state, and the
\* host delivers one lifecycle event (with its retries).
Init ==
  /\ \E st \in Definitions :
       /\ InitDecl(st)
       /\ \E docs \in [SourceIds -> {NoDoc} \cup
                        {ItemDoc(ns) : ns \in {x \in ItemStates : Relevant(st.refProps["A"], x)}}] :
            InitStore(docs)
  /\ InitRun
  /\ InitSearch
  /\ budget = [decls |-> 0, events |-> 1]

Declare ==
  \/ \E props \in PropLists, add \in ActionLists, rem \in ActionLists :
       TrackRefsCall("A", props, add, rem)
  \/ \E p1 \in SourceProps, p2 \in TargetProps \cup {NoProp}, del \in BOOLEAN :
       ConnectCall("A", p1, "B", p2, del)

Handle ==
  \/ \E item \in SourceIds, ns \in ItemStates :
       Relevant(refProps["A"], ns) /\ onRefsUpdateItem(item, ns)
  \/ \E item \in SourceIds, ns \in ItemStates :
       Relevant(refProps["A"], ns) /\ onRefsAddItem(item, ns)
  \/ \E item \in SourceIds : onRefsDeleteItem(item)

Settle ==
  \/ \E op \in ops : OpDone(op)
  \/ \E op \in ops : OpFail(op)

Next ==
  \/ Handle
  \/ Settle
  \/ Commit
  \/ Abort
  \/ Retry

Spec == Init /\ [][Next]_vars

\* SpecDecl: model-definition time, from a program that has declared nothing.
InitDeclare ==
  /\ InitDecl(Fresh(Meta0))
  /\ InitStore([i \in SourceIds |-> NoDoc])
  /\ InitRun
  /\ InitSearch
  /\ budget = [decls |-> MaxDecls, events |-> 0]

NextDecl == Declare

SpecDecl == InitDeclare /\ [][NextDecl]_vars

\* SpecSeq: sequences of committed events on a one-to-many relation.
InitSeq ==
  /\ InitDecl(connect(Fresh(Meta0), "A", "bId", "B", "aIds", FALSE))
  /\ InitStore([i \in SourceIds |-> NoDoc])
  /\ InitRun
  /\ InitSearch
  /\ budget = [decls |-> 0, events |-> MaxEvents]

SpecSeq == InitSeq /\ [][Next]_vars

\* SpecConnect: one more connect call, in either direction, on models that
\* already carry the declarations of a model definition.
PropsOf(m) == IF m = "A" THEN SourceProps ELSE TargetProps
Other(m) == IF m = "A" THEN "B" ELSE "A"

InitConnect ==
  /\ \E st \in Definitions :
       /\ InitDecl(st)
       /\ budget = [decls |-> Len(st.calls) + 2, events |-> 0]
  /\ InitStore([i \in SourceIds |-> NoDoc])
  /\ InitRun
  /\ InitSearch

NextConnect ==
  \E m1 \in Models :
    \E p1 \in PropsOf(m1), p2 \in PropsOf(Other(m1)) \cup {NoProp}, del \in BOOLEAN :
      ConnectCall(m1, p1, Other(m1), p2, del)

SpecConnect == InitConnect /\ [][NextConnect]_vars

\* SpecMany: models that declare belongsToMany(A, "bIds", B, "aId", ...) and
\* then handle one lifecycle event of an A record.
ManyDefinitions ==
  {Fresh(Meta0), Fresh(MetaDeclared),
   connect(Fresh(Meta0), "A", "bIds", "B", "aId", FALSE)}

\* states of an A record that hold nothing in the scalar property
ManyStates == {ns \in ItemStates : ns["bId"] = Undef}

InitMany ==
  /\ \E st \in ManyDefinitions :
       /\ InitDecl(st)
       /\ budget = [decls |-> Len(st.calls) + 1, events |-> 1]
  /\ \E docs \in [SourceIds -> {NoDoc} \cup {ItemDoc(ns) : ns \in ManyStates}] :
       InitStore(docs)
  /\ InitRun
  /\ InitSearch

DeclareMany == \E del \in BOOLEAN : BelongsToManyCall("A", "bIds", "B", "aId", del)

HandleMany ==
  \/ \E item \in SourceIds, ns \in ManyStates : onRefsUpdateItem(item, ns)
  \/ \E item \in SourceIds, ns \in ManyStates : onRefsAddItem(item, ns)
  \/ \E item \in SourceIds : onRefsDeleteItem(item)

NextMany ==
  \/ DeclareMany
  \/ HandleMany
  \/ Settle
  \/ Commit
  \/ Abort
  \/ Retry

SpecMany == InitMany /\ [][NextMany]_vars

\* SpecSearch: a class declares its indexed properties and the host then
\* delivers the search lifecycle events of its items.
PropGroups == {<<"title">>, <<"body">>, <<"title", "body">>}

InitSearchSpec ==
  /\ InitDecl(Fresh(Meta0))
  /\ InitStore([i \in SourceIds |-> NoDoc])
  /\ InitRun
  /\ InitSearch
  /\ budget = [decls |-> 0, events |-> 0]

DeclareSearch == \E props \in PropGroups : IndexForSearchCall(props)

HandleSearch ==
  \/ \E item \in SourceIds, ns \in TextStates : onSearchUpdateItem(item, ns)
  \/ \E item \in SourceIds, ns \in TextStates : onSearchAddItem(item, ns)
  \/ \E item \in SourceIds : onSearchDeleteItem(item)

NextSearch ==
  \/ DeclareSearch
  \/ HandleSearch

SpecSearch == InitSearchSpec /\ [][NextSearch]_vars

\* SpecRace: two properties, both tracked with add [SetID(aId)] and remove
\* [UnsetID(aId)], and one lifecycle event that can move a target from one
\* property to the other.
RaceDefinition ==
  trackRefsOn(trackRefsOn(Fresh(MetaDeclared), "A", <<"bId", "bIds">>, <<>>, <<>>),
              "A", <<"bId", "bIds">>, <<SetIDAction("aId")>>, <<UnsetIDAction("aId")>>)

\* states of an A record that reference b1 or nothing
RaceStates ==
  {ns \in ItemStates :
     /\ ns["bId"] \in {Undef, Null, IdVal("b1")}
     /\ ns["bIds"] \in {Undef, ArrVal(<<>>), ArrVal(<<"b1">>)}}

InitRace ==
  /\ InitDecl(RaceDefinition)
  /\ \E docs \in [SourceIds -> {NoDoc} \cup {ItemDoc(ns) : ns \in RaceStates}] :
       InitStore(docs)
  /\ InitRun
  /\ InitSearch
  /\ budget = [decls |-> 0, events |-> 1]

HandleRace ==
  \/ \E item \in SourceIds, ns \in RaceStates : onRefsUpdateItem(item, ns)
  \/ \E item \in SourceIds, ns \in RaceStates : onRefsAddItem(item, ns)
  \/ \E item \in SourceIds : onRefsDeleteItem(item)

NextRace ==
  \/ HandleRace
  \/ Settle
  \/ Commit
  \/ Abort
  \/ Retry

SpecRace == InitRace /\ [][NextRace]_vars

(* ------------------------------ claims -------------------------------- *)
\* the handler has returned successfully and every operation it issued settled
RunResolved == ~Idle /\ outcome = "resolved" /\ ops = {}
Registry == refProps[ModelOf(ev.item)]
Persisted(e) == db[ItemKey(ev.item)].data[e]
Candidate(e) == ev.newState[e]
IdSet(v) == Range(toArray(v))
\* the ids against which entry k of a branch's action list of e took effect
RanIds(branch, e, k) ==
  {x \in TargetIds : BagIn(RanEntry(branch, e, k, x), ran)}
RanBranch(branch) == {r \in BagToSet(ran) : r.branch = branch}
Holds(doc, prop, id) ==
  doc.exists /\ doc.data[prop].tag = "array" /\ id \in Range(doc.data[prop].ids)
Processed(e) == \E i \in 1..Len(tasks) : tasks[i].e = e /\ tasks[i].phase # "skipped"

\* C1: after connect(A, "bId", B, "aIds"), an update of a.bId from null to b1
\* leaves a's id in b1.aIds, and a following update from b1 to b2 leaves a's id
\* absent from b1.aIds and present in b2.aIds.
C1_OneToManyMoves ==
  \A x \in TargetIds, y \in TargetIds :
    (RunResolved /\ ev.kind = "update" /\ Candidate("bId") = IdVal(y)) =>
      /\ Persisted("bId").tag \in {"undef", "null"} =>
           Holds(db[<<"B", y>>], "aIds", ev.item)
      /\ (Persisted("bId") = IdVal(x) /\ x # y) =>
           /\ ~Holds(db[<<"B", x>>], "aIds", ev.item)
           /\ Holds(db[<<"B", y>>], "aIds", ev.item)

\* the first trackRefs call recorded is the one connect(A, "bId", B, "aId", true) makes
DeclaredDeleteOnRemove ==
  /\ Len(calls) >= 1
  /\ calls[1].cls = "A" /\ calls[1].props = <<"bId">>
  /\ calls[1].addActions = <<SetIDAction("aId")>>
  /\ calls[1].removeActions = <<DeleteItemAction>>

\* C2: after connect(A, "bId", B, "aId", deleteOnRemove = true), clearing the
\* bId of an A record whose persisted bId is b deletes the B record b.
C2_ClearDeletesTarget ==
  \A x \in TargetIds :
    (/\ DeclaredDeleteOnRemove
     /\ RunResolved /\ ev.kind = "update"
     /\ Persisted("bId") = IdVal(x) /\ Candidate("bId") = Null) =>
      ~db[<<"B", x>>].exists

\* C3: after the first trackRefs call on a class without a registry, every
\* property named has removeActions as its remove-action list and addActions as
\* its add-action list.
C3_FirstCallLists ==
  (Len(calls) = 1 /\ ~calls[1].threw) =>
    \A p \in Range(calls[1].props) :
      /\ refProps[calls[1].cls].AddActions[p] = calls[1].addActions
      /\ refProps[calls[1].cls].RemoveActions[p] = calls[1].removeActions

RECURSIVE ConcatOf(_, _, _, _)
\* the concatenation, in call order, of one argument of the calls that named p
ConcatOf(cs, cls, p, which) ==
  IF cs = <<>> THEN <<>>
  ELSE (IF Head(cs).cls = cls /\ p \in Range(Head(cs).props)
        THEN IF which = "add" THEN Head(cs).addActions ELSE Head(cs).removeActions
        ELSE <<>>) \o ConcatOf(Tail(cs), cls, p, which)

\* C4: every trackRefs call of a sequence completes without error and the
\* registry tracks every declared property with, per property, the action lists
\* of the calls that named it concatenated in call order.
C4_CallsAccumulate ==
  /\ \A i \in 1..Len(calls) : ~calls[i].threw
  /\ \A i \in 1..Len(calls) : \A p \in Range(calls[i].props) :
       LET reg == refProps[calls[i].cls]
       IN  /\ p \in Range(reg.props)
           /\ p \in DOMAIN reg.AddActions
           /\ reg.AddActions[p] = ConcatOf(calls, calls[i].cls, p, "add")
           /\ reg.RemoveActions[p] = ConcatOf(calls, calls[i].cls, p, "remove")

\* C5: in a successful run, for every tracked property that is processed, the
\* add-actions take effect exactly for the ids of the candidate value that are
\* not in the persisted value, the remove-actions exactly for the ids of the
\* persisted value that are not in the candidate value, and an id in both (or a
\* property the update does not write) triggers nothing.
C5_DeltaIsSetDifference ==
  RunResolved =>
    \A e \in Range(Registry.props) :
      IF Processed(e)
      THEN /\ \A k \in 1..Len(Registry.AddActions[e]) :
                RanIds("add", e, k) = IdSet(Candidate(e)) \ IdSet(Persisted(e))
           /\ \A k \in 1..Len(Registry.RemoveActions[e]) :
                RanIds("remove", e, k) = IdSet(Persisted(e)) \ IdSet(Candidate(e))
      ELSE \A r \in BagToSet(ran) : r.e # e

\* a scalar moved from one id to another, or an array kept one id and lost another
C5_Witness ==
  /\ RunResolved
  /\ \E e \in Range(Registry.props) :
       /\ Len(Registry.RemoveActions[e]) > 0
       /\ RanIds("remove", e, 1) # {}
       /\ \/ RanIds("add", e, 1) # {}
          \/ IdSet(Persisted(e)) \cap IdSet(Candidate(e)) # {}

\* C6: one successful run executes each registered remove-action exactly once
\* per removed id and each registered add-action exactly once per added id.
C6_ExactlyOnce ==
  RunResolved =>
    \A r \in RanBranch("add") \cup RanBranch("remove") : CopiesIn(r, ran) = 1

\* C7: executing the handler twice for the same event, on the same persisted
\* snapshot of the item, leaves every record as the first execution left it.
C7_RetryIdempotent ==
  (RunResolved /\ firstRun.taken) => db = firstRun.db

\* C8: once an operation of the run has failed the handler does not complete
\* successfully: its promise is rejected.
C8_FailureRejects == nFail > 0 => outcome = "rejected"

\* a run in which an action took effect and another operation failed
C8_Witness == nFail > 0 /\ ran # EmptyBag /\ ops = {} /\ db # committed.db

\* C9: onRefsDeleteItem processes every tracked property, runs the remove-actions
\* for every id of the persisted value, runs no add-action and saves no target.
C9_DeleteRemovesAll ==
  (RunResolved /\ ev.kind = "delete") =>
    /\ \A e \in Range(Registry.props) :
         /\ Processed(e)
         /\ \A k \in 1..Len(Registry.RemoveActions[e]) :
              RanIds("remove", e, k) = IdSet(Persisted(e))
    /\ RanBranch("add") = {}
    /\ RanBranch("save") = {}

C9_Witness ==
  /\ RunResolved /\ ev.kind = "delete"
  /\ \E e \in Range(Registry.props) :
       Cardinality(IdSet(Persisted(e))) = 2 /\ RanIds("remove", e, 1) = IdSet(Persisted(e))

\* C10: onRefsAddItem runs the add-actions for every id of the candidate value
\* of every tracked property and no remove-action, whatever item.read returns.
C10_AddIgnoresPersisted ==
  (RunResolved /\ ev.kind = "add") =>
    /\ \A e \in Range(Registry.props) :
         \A k \in 1..Len(Registry.AddActions[e]) :
           RanIds("add", e, k) = IdSet(Candidate(e))
    /\ RanBranch("remove") = {}

\* C11: a connect call whose reciprocal property is array-valued and whose
\* deleteOnRemove is true raises the configuration error and leaves both
\* registries, both Metas and the history of trackRefs calls unchanged.
C11_ConfigErrorLeavesAll ==
  [][\A m1 \in Models : \A p1 \in PropsOf(m1), p2 \in PropsOf(Other(m1)) :
       (/\ Meta[<<Other(m1), p2>>].type = "array"
        /\ ConnectCall(m1, p1, Other(m1), p2, TRUE)) =>
         /\ declError' = "InvalidParameters"
         /\ UNCHANGED <<refProps, Meta, triggersUpdateTxn, calls>>]_vars

\* the configuration error was raised on models that already had a registry
C11_Witness ==
  /\ declError = "InvalidParameters"
  /\ refProps["A"].has /\ refProps["B"].has

\* the last declaration made is belongsToMany(A, "bIds", B, "aId", del), and it returned
DeclaredBelongsToMany(del) ==
  /\ Len(calls) >= 1
  /\ ~calls[Len(calls)].threw
  /\ calls[Len(calls)].cls = ModelObject("A")
  /\ calls[Len(calls)].props = <<"bIds">>
  /\ calls[Len(calls)].addActions = <<SetIDAction("aId")>>
  /\ calls[Len(calls)].removeActions =
       IF del THEN <<DeleteItemAction>> ELSE <<RemoveIDAction("aId")>>

\* C12: after belongsToMany(A, "bIds", B, "aId", del), an update of an A record
\* leaves every B record added to bIds with aId = the A record's id, and every
\* B record removed from bIds deleted (del) or with aId = null (not del).
C12_BelongsToMany ==
  \A del \in BOOLEAN, x \in TargetIds :
    (/\ DeclaredBelongsToMany(del)
     /\ RunResolved /\ ev.kind = "update" /\ Candidate("bIds").tag = "array") =>
      /\ x \in IdSet(Candidate("bIds")) \ IdSet(Persisted("bIds")) =>
           /\ db[<<"B", x>>].exists
           /\ db[<<"B", x>>].data["aId"] = IdVal(ev.item)
      /\ x \in IdSet(Persisted("bIds")) \ IdSet(Candidate("bIds")) =>
           IF del THEN ~db[<<"B", x>>].exists
           ELSE db[<<"B", x>>].exists /\ db[<<"B", x>>].data["aId"] = Null

\* the tokens the tokenizer makes of one property value
TokensOf(v) == Range(parseQuery(StringOf(v)))
\* the entry of the item of the last search event
LastEntry == searchEntries[_id(searchEv.item)]

\* C13: for a class indexed on ["title", "body"], an update whose candidate state
\* holds body and not title leaves an entry whose tokens are those of the
\* persisted title together with those of the new body.
C13_UnchangedTitleKept ==
  (/\ searchIndexProps.groups = <<(<<"title", "body">>)>>
   /\ searchEv.kind = "update"
   /\ hasProp(searchEv.newState, "body") /\ ~hasProp(searchEv.newState, "title")) =>
    /\ LastEntry.exists
    /\ Range(LastEntry.tokens) =
         TokensOf(searchEv.prevState["title"]) \cup TokensOf(searchEv.newState["body"])

\* the title persisted as "Foo" and the update wrote only the body, "foo bar"
C13_Witness ==
  /\ searchIndexProps.groups = <<(<<"title", "body">>)>>
  /\ searchEv.kind = "update"
  /\ searchEv.prevState["title"] = TextVal(<<"Foo">>)
  /\ searchEv.newState = [title |-> TUndef, body |-> TextVal(<<"foo", "bar">>)]
  /\ LastEntry.tokens = <<"foo", "bar">>

RECURSIVE Flatten(_)
Flatten(groups) ==
  IF groups = <<>> THEN <<>> ELSE Head(groups) \o Flatten(Tail(groups))

\* the union of the tokens of every declared group for one state
GroupTokens(groups, state) ==
  UNION {Range(parseQuery(joinProps(groups[i], state))) : i \in 1..Len(groups)}

\* C14: after two or more indexForSearch calls on a class, its indexed-property
\* list is the concatenation of the calls' lists, and the entry its indexer
\* makes of any state holds the tokens of every group, each once.
C14_GroupsAccumulate ==
  Len(searchIndexProps.groups) >= 2 =>
    /\ searchIndexProps.props = Flatten(searchIndexProps.groups)
    /\ \A state \in TextStates :
         LET tokens == indexer(searchIndexProps.groups, state).tokens
         IN  /\ Range(tokens) = GroupTokens(searchIndexProps.groups, state)
             /\ Cardinality(Range(tokens)) = Len(tokens)
    /\ (/\ searchEv.kind \in {"add", "update"}
        /\ \E e \in Range(searchIndexProps.props) : hasProp(searchEv.newState, e)) =>
         /\ LastEntry.exists
         /\ Range(LastEntry.tokens) =
              GroupTokens(searchIndexProps.groups,
                          mergedState(searchIndexProps, searchEv.newState,
                                      searchEv.prevState))
         /\ Cardinality(Range(LastEntry.tokens)) = Len(LastEntry.tokens)

\* two different groups were declared and an entry holds tokens of both
C14_Witness ==
  /\ searchIndexProps.groups = <<(<<"title">>), (<<"body">>)>>
  /\ searchEv.kind = "add"
  /\ searchEv.newState = [title |-> TextVal(<<"Foo">>), body |-> TextVal(<<"foo", "bar">>)]
  /\ LastEntry.tokens = <<"foo", "bar">>

\* C15: an add or update event never removes a token from an entry that exists.
C15_TokensNeverShrink ==
  [][\A item \in SourceIds :
       (/\ searchEntries[_id(item)].exists
        /\ searchEv'.kind \in {"add", "update"}) =>
         Range(searchEntries[_id(item)].tokens) \subseteq
           Range(searchEntries'[_id(item)].tokens)]_vars

\* the record an operation of the run works on
TargetOf(op) ==
  IF op.ph = "remove" THEN RefKey(ev.item, tasks[op.i].e, tasks[op.i].removed[op.j])
  ELSE RefKey(ev.item, tasks[op.i].e, tasks[op.i].added[op.j])

\* C16: within the action list of one added or removed id the actions run in
\* registration order: when the run of entry k takes effect, the run of entry
\* k - 1 for the same id has completed.
C16_RegistrationOrder ==
  [][\A op \in ops :
       (op.ph \in {"add", "remove"} /\ op.k > 1 /\ OpDone(op)) =>
         Op(op.i, op.ph, op.j, op.k - 1) \notin ops]_vars

\* C17: no add-action for a target has started while a save of that target,
\* found local-only, has not completed.
C17_SaveBeforeAdd ==
  \A a \in ops, sv \in ops :
    (a.ph = "add" /\ sv.ph = "save") => TargetOf(a) # TargetOf(sv)

\* C18: within one tracked property, no save and no add-action has started
\* while a remove-action of that property has not completed.
C18_RemoveBeforeAdd ==
  \A r \in ops, o \in ops :
    (r.ph = "remove" /\ o.ph \in {"save", "add"}) => tasks[r.i].e # tasks[o.i].e

\* C19: with connect(A, "bId", B, "aIds") declared and no event in progress, an
\* A record's id is in b.aIds exactly when the A record exists with bId = b.
C19_ReferentialIntegrity ==
  Idle =>
    \A a \in SourceIds, b \in TargetIds :
      Holds(db[<<"B", b>>], "aIds", a) <=>
        (db[<<"A", a>>].exists /\ db[<<"A", a>>].data["bId"] = IdVal(b))

RECURSIVE ApplyActions(_, _, _)
\* the actions of a list applied to a record one after the other
ApplyActions(actions, itemId, doc) ==
  IF actions = <<>> THEN doc
  ELSE ApplyActions(Tail(actions), itemId, RunAction(Head(actions), itemId, doc))

RECURSIVE SeqRemoved(_, _, _, _, _)
SeqRemoved(st, item, e, removed, actions) ==
  IF removed = <<>> THEN st
  ELSE SeqRemoved(
         [st EXCEPT !.db[RefKey(item, e, Head(removed))] = ApplyActions(actions, item, @)],
         item, e, Tail(removed), actions)

RECURSIVE SeqAdded(_, _, _, _, _)
SeqAdded(st, item, e, added, actions) ==
  IF added = <<>> THEN st
  ELSE LET key == RefKey(item, e, Head(added))
           doc == IF key \in st.lo THEN savedDoc ELSE st.db[key]
       IN  SeqAdded([db |-> [st.db EXCEPT ![key] = ApplyActions(actions, item, doc)],
                     lo |-> st.lo \ {key}],
                    item, e, Tail(added), actions)

RECURSIVE SeqRun(_, _, _, _, _, _)
\* the run executed one operation at a time, in program order
SeqRun(st, reg, props, item, newState, isUpdate) ==
  IF props = <<>> THEN st
  ELSE LET e == Head(props)
           old == st.db[ItemKey(item)].data[e]
           afterRemoved == SeqRemoved(st, item, e, removedIds(newState[e], old),
                                      reg.RemoveActions[e])
           afterAdded == SeqAdded(afterRemoved, item, e, addedIds(newState[e], old),
                                  reg.AddActions[e])
       IN  SeqRun(IF isUpdate /\ ~didUpdate(newState, e) THEN st ELSE afterAdded,
                  reg, Tail(props), item, newState, isUpdate)

\* C20: the records a successful run leaves are the same in every interleaving
\* of its operations: they are those of the run executed one operation at a time.
C20_InterleavingIndependent ==
  (RunResolved /\ ~firstRun.taken) =>
    db = SeqRun([db |-> committed.db, lo |-> committed.localOnly], Registry,
                Registry.props, ev.item, ev.newState, ev.isUpdate).db

====
